---------------------------- MODULE Spec2Model ----------------------------
(***************************************************************************)
(* Model of grzetich/pokemon-tcg-mcp.                                      *)
(*                                                                         *)
(*   src/orchestrator_app.py  the RPC bridge: Content-Length framing over  *)
(*                            stdin/stdout, the dispatch loop (main) and   *)
(*                            execute_tool_call                            *)
(*   src/app.py               the data gateway (Flask handlers)            *)
(*   src/tcg_service.py       the service variant of the gateway helpers   *)
(*                                                                         *)
(* Byte streams and Python str values are TLA+ strings, one character per  *)
(* byte.  Python values (None, bool, int, str, list, dict) are records     *)
(* [t, v]; a dict is its sequence of <<key, value>> items in insertion     *)
(* order.                                                                  *)
(***************************************************************************)
EXTENDS Integers, Sequences, FiniteSets, TLC

VARIABLES
    stdin,          \* bridge: the bytes of sys.stdin that arrived and are not read yet
    eof,            \* bridge: the client closed its end of sys.stdin
    stdout,         \* bridge: the bytes on sys.stdout the client has not taken yet
    request_id,     \* main's local request_id (Unbound before its first assignment)
    loop,           \* "starting" | "running" | "terminated": where main is
    last,           \* the latest pass through the loop body and its upstream call
    nfed,           \* number of chunks the client has sent
    _pokemontcgsdk_initialized,  \* app.py line 18
    _pokemontcgsdk,              \* app.py line 19: "None" or "module"
    gw,             \* gateway: the latest request served and its response
    pipe,           \* framing: the bytes between a writer and a reader
    written,        \* framing: the values write_message was given, in order
    readback,       \* framing: the results of read_message, in order
    pg              \* pagination: the arguments and the result of the latest call

bridge_vars == <<stdin, eof, stdout, request_id, loop, last, nfed>>
gateway_vars == <<_pokemontcgsdk_initialized, _pokemontcgsdk, gw>>
framing_vars == <<pipe, written, readback>>
vars == <<bridge_vars, gateway_vars, framing_vars, pg>>

-----------------------------------------------------------------------------
(* Python values *)

None == [t |-> "None", v |-> 0]
PyBool(b) == [t |-> "bool", v |-> b]
PyInt(n) == [t |-> "int", v |-> n]
PyStr(s) == [t |-> "str", v |-> s]
PyList(xs) == [t |-> "list", v |-> xs]
PyDict(items) == [t |-> "dict", v |-> items]

\* A local name that has not been assigned yet ('request_id' not in locals()).
Unbound == [t |-> "unbound", v |-> 0]

RECURSIVE ItemIndex(_, _, _)
\* Index of key k among the items of a dict, 0 when absent.
ItemIndex(items, k, i) ==
    IF i > Len(items) THEN 0
    ELSE IF items[i][1] = k THEN i
    ELSE ItemIndex(items, k, i + 1)

HasKey(d, k) == ItemIndex(d.v, k, 1) # 0

\* dict.get(k, default)
DictGet(d, k, default) ==
    LET i == ItemIndex(d.v, k, 1) IN IF i = 0 THEN default ELSE d.v[i][2]

\* d[k] = x: replaces the value of an existing key, else appends the item.
DictSet(d, k, x) ==
    LET i == ItemIndex(d.v, k, 1) IN
    IF i = 0 THEN PyDict(Append(d.v, <<k, x>>))
    ELSE PyDict([d.v EXCEPT ![i] = <<k, x>>])

\* dict.pop(k) of an existing key: the remaining items.
DictWithout(d, k) ==
    LET i == ItemIndex(d.v, k, 1) IN
    PyDict(SubSeq(d.v, 1, i - 1) \o SubSeq(d.v, i + 1, Len(d.v)))

-----------------------------------------------------------------------------
(* Evaluation *)

\* Body of value: value is a local variable of the code, computed once and
\* used wherever Body names it.
Bind(value, Body(_)) == Body(value)
Bind2(value1, value2, Body(_, _)) == Body(value1, value2)

-----------------------------------------------------------------------------
(* Characters and text *)

\* The bytes i..j of s that exist (a Python slice s[i-1:j], 1-based).
Slice(s, i, j) ==
    IF (IF i < 1 THEN 1 ELSE i) > (IF j > Len(s) THEN Len(s) ELSE j) THEN ""
    ELSE SubSeq(s, IF i < 1 THEN 1 ELSE i, IF j > Len(s) THEN Len(s) ELSE j)

CharAt(s, i) == IF i < 1 \/ i > Len(s) THEN "" ELSE SubSeq(s, i, i)

\* Stands for a byte sequence that is not valid UTF-8 (bytes.decode raises).
BadByte == "^"
\* Stands for the non-ASCII character U+00E9 of a Python str.
NonAscii == "@"

Digits == "0123456789"
IsDigit(c) == c \in {"0", "1", "2", "3", "4", "5", "6", "7", "8", "9"}
DigitVal(c) == CHOOSE d \in 0..9 : SubSeq(Digits, d + 1, d + 1) = c

\* str.strip() and the JSON scanner skip these.
IsSpace(c) == c \in {" ", "\t", "\r", "\n"}

\* Index of the first character of s at or after i that is in the set cs, 0 if
\* there is none.
FindAny(s, cs, i) ==
    IF \E j \in i..Len(s) : SubSeq(s, j, j) \in cs
    THEN CHOOSE j \in i..Len(s) :
            /\ SubSeq(s, j, j) \in cs
            /\ \A k \in i..(j - 1) : SubSeq(s, k, k) \notin cs
    ELSE 0

\* Index of the first occurrence of character c in s at or after i, 0 if none.
Find(s, c, i) == FindAny(s, {c}, i)

\* Index of the first character of s at or after i that is not in the set cs,
\* Len(s) + 1 if there is none (i itself when i is past the end).
FindNot(s, cs, i) ==
    IF \E j \in i..Len(s) : SubSeq(s, j, j) \notin cs
    THEN CHOOSE j \in i..Len(s) :
            /\ SubSeq(s, j, j) \notin cs
            /\ \A k \in i..(j - 1) : SubSeq(s, k, k) \in cs
    ELSE IF i > Len(s) THEN i ELSE Len(s) + 1

WhiteSpace == {" ", "\t", "\r", "\n"}

\* Index of the first character at or after i that is not white space.
LStripFrom(s, i) == FindNot(s, WhiteSpace, i)

\* Index of the last character at or before j that is not white space, 0 if
\* there is none.
RStripTo(s, j) ==
    IF \E i \in 1..j : SubSeq(s, i, i) \notin WhiteSpace
    THEN CHOOSE i \in 1..j :
            /\ SubSeq(s, i, i) \notin WhiteSpace
            /\ \A k \in (i + 1)..j : SubSeq(s, k, k) \in WhiteSpace
    ELSE 0

\* str.strip()
Strip(s) ==
    Bind2(LStripFrom(s, 1), RStripTo(s, Len(s)), LAMBDA i, j : Slice(s, i, j))

RECURSIVE NatToStr(_)
NatToStr(n) ==
    IF n < 10 THEN SubSeq(Digits, n + 1, n + 1)
    ELSE NatToStr(n \div 10) \o SubSeq(Digits, (n % 10) + 1, (n % 10) + 1)

\* str(n) of an int
IntToStr(n) == IF n < 0 THEN "-" \o NatToStr(0 - n) ELSE NatToStr(n)

\* The characters i..j of s are digits.
AllDigits(s, i, j) == \A k \in i..j : IsDigit(SubSeq(s, k, k))

RECURSIVE DigitsVal(_, _, _)
\* The number the digits i..j of s write.
DigitsVal(s, i, j) ==
    IF j < i THEN 0
    ELSE DigitsVal(s, i, j - 1) * 10 + DigitVal(SubSeq(s, j, j))

\* int(s): [ok, val]; ok = FALSE is ValueError.  Surrounding whitespace and one
\* sign are accepted, as Python does.
ParseInt(s) ==
    Bind(Strip(s), LAMBDA u :
        Bind(IF CharAt(u, 1) \in {"-", "+"} THEN 2 ELSE 1, LAMBDA b :
            IF Len(u) < b \/ ~AllDigits(u, b, Len(u)) THEN [ok |-> FALSE, val |-> 0]
            ELSE [ok |-> TRUE,
                  val |-> IF CharAt(u, 1) = "-" THEN 0 - DigitsVal(u, b, Len(u))
                          ELSE DigitsVal(u, b, Len(u))]))

\* bytes.decode('utf-8') succeeds
DecodesUtf8(b) == \A j \in 1..Len(b) : SubSeq(b, j, j) # BadByte

-----------------------------------------------------------------------------
(* json.dumps / json.loads (the standard library, as read_message and      *)
(* write_message use it).  Numbers are ints; floats are not modelled.      *)

\* One character of a str as json.dumps writes it (ensure_ascii=True).
EscapeChar(c) ==
    IF c = "\"" THEN "\\\""
    ELSE IF c = "\\" THEN "\\\\"
    ELSE IF c = "\n" THEN "\\n"
    ELSE IF c = "\r" THEN "\\r"
    ELSE IF c = "\t" THEN "\\t"
    ELSE IF c = NonAscii THEN "\\u00e9"
    ELSE c

RECURSIVE EscapeFrom(_, _)
\* s from index i on, escaped: unescaped runs are copied whole.
EscapeFrom(s, i) ==
    Bind(FindAny(s, {"\"", "\\", "\n", "\r", "\t", NonAscii}, i), LAMBDA j :
        IF j = 0 THEN Slice(s, i, Len(s))
        ELSE Slice(s, i, j - 1) \o EscapeChar(SubSeq(s, j, j)) \o EscapeFrom(s, j + 1))

DumpStr(s) == "\"" \o EscapeFrom(s, 1) \o "\""

RECURSIVE json_dumps(_)
RECURSIVE DumpItems(_, _)
RECURSIVE DumpElems(_, _)
\* "k": v, "k": v  (item_separator ', ', key_separator ': ')
DumpItems(items, i) ==
    IF i > Len(items) THEN ""
    ELSE (IF i > 1 THEN ", " ELSE "")
         \o DumpStr(items[i][1]) \o ": " \o json_dumps(items[i][2])
         \o DumpItems(items, i + 1)

DumpElems(xs, i) ==
    IF i > Len(xs) THEN ""
    ELSE (IF i > 1 THEN ", " ELSE "") \o json_dumps(xs[i]) \o DumpElems(xs, i + 1)

json_dumps(x) ==
    CASE x.t = "None" -> "null"
      [] x.t = "bool" -> (IF x.v THEN "true" ELSE "false")
      [] x.t = "int"  -> IntToStr(x.v)
      [] x.t = "str"  -> DumpStr(x.v)
      [] x.t = "list" -> "[" \o DumpElems(x.v, 1) \o "]"
      [] x.t = "dict" -> "{" \o DumpItems(x.v, 1) \o "}"

\* A parse result: ok = FALSE is json.JSONDecodeError; pos is the index after
\* the value.
Bad(i) == [ok |-> FALSE, val |-> None, pos |-> i]
Good(x, i) == [ok |-> TRUE, val |-> x, pos |-> i]

SkipWs(s, i) == FindNot(s, WhiteSpace, i)

\* The character an escape \e stands for ("" when e is no simple escape).
Unescape(e) ==
    IF e \in {"\"", "\\", "/"} THEN e
    ELSE IF e = "n" THEN "\n"
    ELSE IF e = "r" THEN "\r"
    ELSE IF e = "t" THEN "\t"
    ELSE ""

RECURSIVE ScanString(_, _, _)
\* The str whose opening quote precedes index i; acc is what was read so far.
\* Runs without a quote, a backslash or a control character are read whole.
ScanString(s, i, acc) ==
    Bind(FindAny(s, {"\"", "\\", "\n", "\r", "\t"}, i), LAMBDA j :
        IF j = 0 THEN Bad(Len(s) + 1)
        ELSE IF SubSeq(s, j, j) = "\"" THEN Good(PyStr(acc \o Slice(s, i, j - 1)), j + 1)
        ELSE IF SubSeq(s, j, j) # "\\" THEN Bad(j)
        ELSE IF Unescape(CharAt(s, j + 1)) # ""
        THEN Bind(acc \o Slice(s, i, j - 1) \o Unescape(CharAt(s, j + 1)), LAMBDA run :
                ScanString(s, j + 2, run))
        ELSE IF Slice(s, j + 1, j + 5) = "u00e9"
        THEN Bind(acc \o Slice(s, i, j - 1) \o NonAscii, LAMBDA run :
                ScanString(s, j + 6, run))
        ELSE Bad(j))

\* The number at index i: an optional '-' and digits without a leading zero.
ScanNumber(s, i) ==
    Bind(IF SubSeq(s, i, i) = "-" THEN i + 1 ELSE i, LAMBDA b :
        Bind(FindNot(s, {"0", "1", "2", "3", "4", "5", "6", "7", "8", "9"}, b),
             LAMBDA e :
                IF e = b THEN Bad(i)
                ELSE IF e > b + 1 /\ SubSeq(s, b, b) = "0" THEN Good(PyInt(0), b + 1)
                ELSE Good(PyInt(IF b > i THEN 0 - DigitsVal(s, b, e - 1)
                                ELSE DigitsVal(s, b, e - 1)), e)))

RECURSIVE ScanValue(_, _)
RECURSIVE ScanItems(_, _, _)
RECURSIVE ScanElems(_, _, _)
\* The items of an object after its '{' or after a ','; i is at the key's quote.
ScanItems(s, i, acc) ==
    IF CharAt(s, i) # "\"" THEN Bad(i)
    ELSE Bind(ScanString(s, i + 1, ""), LAMBDA k :
         IF ~k.ok THEN k
         ELSE Bind(SkipWs(s, k.pos), LAMBDA c :
              IF CharAt(s, c) # ":" THEN Bad(c)
              ELSE Bind(ScanValue(s, SkipWs(s, c + 1)), LAMBDA x :
                   IF ~x.ok THEN x
                   ELSE Bind2(SkipWs(s, x.pos), DictSet(PyDict(acc), k.val.v, x.val).v,
                              LAMBDA d, items :
                                IF CharAt(s, d) = "}" THEN Good(PyDict(items), d + 1)
                                ELSE IF CharAt(s, d) = ","
                                THEN Bind(SkipWs(s, d + 1), LAMBDA n :
                                        ScanItems(s, n, items))
                                ELSE Bad(d)))))

ScanElems(s, i, acc) ==
    Bind(ScanValue(s, i), LAMBDA x :
        IF ~x.ok THEN x
        ELSE Bind2(SkipWs(s, x.pos), Append(acc, x.val), LAMBDA d, elems :
                IF CharAt(s, d) = "]" THEN Good(PyList(elems), d + 1)
                ELSE IF CharAt(s, d) = ","
                THEN Bind(SkipWs(s, d + 1), LAMBDA n : ScanElems(s, n, elems))
                ELSE Bad(d)))

\* The value at index i (which the caller has put on the first character).
ScanValue(s, i_) ==
    Bind2(i_, CharAt(s, i_), LAMBDA i, c :
        IF c = "\"" THEN ScanString(s, i + 1, "")
        ELSE IF c = "{" THEN
            Bind(SkipWs(s, i + 1), LAMBDA j :
                IF CharAt(s, j) = "}" THEN Good(PyDict(<<>>), j + 1)
                ELSE ScanItems(s, j, <<>>))
        ELSE IF c = "[" THEN
            Bind(SkipWs(s, i + 1), LAMBDA j :
                IF CharAt(s, j) = "]" THEN Good(PyList(<<>>), j + 1)
                ELSE ScanElems(s, j, <<>>))
        ELSE IF Slice(s, i, i + 3) = "null" THEN Good(None, i + 4)
        ELSE IF Slice(s, i, i + 3) = "true" THEN Good(PyBool(TRUE), i + 4)
        ELSE IF Slice(s, i, i + 4) = "false" THEN Good(PyBool(FALSE), i + 5)
        ELSE IF c = "-" \/ IsDigit(c) THEN ScanNumber(s, i)
        ELSE Bad(i))

\* json.loads(s): [ok, val]; ok = FALSE is json.JSONDecodeError ("Expecting
\* value", "Extra data", ...).
json_loads(s) ==
    Bind(ScanValue(s, SkipWs(s, 1)), LAMBDA x :
        IF ~x.ok THEN [ok |-> FALSE, val |-> None]
        ELSE IF SkipWs(s, x.pos) <= Len(s) THEN [ok |-> FALSE, val |-> None]
        ELSE [ok |-> TRUE, val |-> x.val])

-----------------------------------------------------------------------------
(* Message framing: orchestrator_app.py read_message / write_message *)

\* stream.readline(): the bytes up to and including the first "\n", or all
\* that is left when there is none ("" at end of file).
ReadLine(stream) ==
    Bind(Find(stream, "\n", 1), LAMBDA n : IF n = 0 THEN stream ELSE Slice(stream, 1, n))

\* The stream after k of its bytes were consumed.
Drop(stream, k) == Slice(stream, k + 1, Len(stream))

\* str(e) of the UnicodeDecodeError bytes.decode raises on b.
DecodeErrorText(b) ==
    "'utf-8' codec can't decode byte 0xff in position "
    \o IntToStr(Find(b, BadByte, 1) - 1) \o ": invalid start byte"

\* A result of read_message or of its header loop.  exc = "" is a normal
\* return of val; otherwise exc names the exception raised, msg is its text and
\* val is None.  rest is what is left of the stream.  short: a readline or the
\* read reached the end of the bytes at hand (on an open pipe the call would
\* wait for more instead of returning).
Raised(exc, msg, rest, short) ==
    [exc |-> exc, msg |-> msg, val |-> None, rest |-> rest, short |-> short]
Returned(val, rest, short) ==
    [exc |-> "", msg |-> "", val |-> val, rest |-> rest, short |-> short]

\* Lines 23-25: key, value = line.split(':', 1) and the assignment to headers;
\* colon is the index of the first ':' of line.
SetHeader(headers, line, colon) ==
    DictSet(headers, Strip(Slice(line, 1, colon - 1)),
            PyStr(Strip(Slice(line, colon + 1, Len(line)))))

RECURSIVE ReadHeaders(_, _)
\* The header loop of read_message (lines 17-25); val is the headers dict when
\* the blank line was reached (exc = ""), and exc = "EOF" is the return of None
\* at line 20.
ReadHeaders(stream, headers) ==
    Bind(ReadLine(stream), LAMBDA line_bytes :
    Bind2(Drop(stream, Len(line_bytes)), Find(line_bytes, "\n", 1) = 0, LAMBDA rest, short :
        IF line_bytes = "" THEN Raised("EOF", "", rest, short)
        ELSE IF ~DecodesUtf8(line_bytes)
        THEN Raised("UnicodeDecodeError", DecodeErrorText(line_bytes), rest, short)
        ELSE Bind(Strip(line_bytes), LAMBDA line :
            IF line = "" THEN Returned(headers, rest, short)
            ELSE Bind(Find(line, ":", 1), LAMBDA colon :
                IF colon = 0
                THEN Raised("ValueError",
                            "not enough values to unpack (expected 2, got 1)",
                            rest, short)
                ELSE Bind(SetHeader(headers, line, colon), LAMBDA hs :
                        ReadHeaders(rest, hs))))))

\* Lines 27-32 of read_message, once the header loop has given h.
ReadContent(h) ==
    Bind2(DictGet(h.val, "Content-Length", PyStr("0")).v,
          ParseInt(DictGet(h.val, "Content-Length", PyStr("0")).v),
          LAMBDA text, content_length :
        IF ~content_length.ok
        THEN Raised("ValueError",
                    "invalid literal for int() with base 10: '" \o text \o "'",
                    h.rest, h.short)
        ELSE IF content_length.val = 0 THEN Returned(None, h.rest, h.short)
        ELSE IF content_length.val < -1
        THEN Raised("ValueError", "read length must be non-negative or -1",
                    h.rest, h.short)
        ELSE Bind(IF content_length.val = -1 THEN h.rest
                  ELSE Slice(h.rest, 1, content_length.val), LAMBDA content_bytes :
             Bind2(Drop(h.rest, Len(content_bytes)),
                   h.short \/ Len(content_bytes) < content_length.val
                           \/ content_length.val = -1,
                   LAMBDA rest, short :
                IF ~DecodesUtf8(content_bytes)
                THEN Raised("UnicodeDecodeError", DecodeErrorText(content_bytes),
                            rest, short)
                ELSE Bind(json_loads(content_bytes), LAMBDA doc :
                        IF ~doc.ok THEN Raised("JSONDecodeError", "", rest, short)
                        ELSE Returned(doc.val, rest, short)))))

\* read_message(stream), lines 13-32.
read_message(stream) ==
    Bind(ReadHeaders(stream, PyDict(<<>>)), LAMBDA h :
        IF h.exc = "EOF" THEN Returned(None, h.rest, h.short)
        ELSE IF h.exc # "" THEN h
        ELSE ReadContent(h))

\* FrameOf with the Content-Length one too small.
FrameOf_ShortLength(message) ==
    "Content-Length: " \o IntToStr(Len(json_dumps(message)) - 1) \o "\r\n"
    \o "Content-Type: application/json\r\n"
    \o "\r\n"
    \o json_dumps(message)

\* The bytes write_message writes for message (lines 36-43).
FrameOf(message) ==
    LET json_payload_bytes == json_dumps(message)
        content_length == Len(json_payload_bytes)
    IN  "Content-Length: " \o IntToStr(content_length) \o "\r\n"
        \o "Content-Type: application/json\r\n"
        \o "\r\n"
        \o json_payload_bytes

\* write_message(stream, message): the stream afterwards.
write_message(stream, message) == stream \o FrameOf(message)

-----------------------------------------------------------------------------
(* Tool calls: orchestrator_app.py execute_tool_call *)

APP_URL == "https://pocket-monster-tcg-mcp.onrender.com/"

\* str(x) / f"{x}" of a value.
PyFormat(x) ==
    CASE x.t = "str"  -> x.v
      [] x.t = "int"  -> IntToStr(x.v)
      [] x.t = "None" -> "None"
      [] x.t = "bool" -> (IF x.v THEN "True" ELSE "False")

\* ToolRoute without the params = {} of lines 159 and 165: the by-id tools send
\* the kwargs along as the query.
ToolRoute_KeepParams(tool_name, kwargs) ==
    LET route(endpoint, params) ==
            [exc |-> "", known |-> TRUE, endpoint |-> endpoint, params |-> params]
        missing(k) ==
            [exc |-> "KeyError", known |-> TRUE, endpoint |-> "'" \o k \o "'",
             params |-> kwargs]
    IN  IF tool_name = PyStr("get_pokemon_card_price") THEN route("/card_price", kwargs)
        ELSE IF tool_name = PyStr("search_pokemon_cards") THEN route("/cards", kwargs)
        ELSE IF tool_name = PyStr("get_pokemon_card_by_id") THEN
            IF ~HasKey(kwargs, "card_id") THEN missing("card_id")
            ELSE route("/cards/" \o PyFormat(DictGet(kwargs, "card_id", None)), kwargs)
        ELSE IF tool_name = PyStr("get_pokemon_sets") THEN route("/sets", kwargs)
        ELSE IF tool_name = PyStr("get_pokemon_set_by_id") THEN
            IF ~HasKey(kwargs, "set_id") THEN missing("set_id")
            ELSE route("/sets/" \o PyFormat(DictGet(kwargs, "set_id", None)), kwargs)
        ELSE IF tool_name = PyStr("get_pokemon_card_types")
             THEN route("/types", PyDict(<<>>))
        ELSE IF tool_name = PyStr("get_pokemon_card_supertypes")
             THEN route("/supertypes", PyDict(<<>>))
        ELSE IF tool_name = PyStr("get_pokemon_card_subtypes")
             THEN route("/subtypes", PyDict(<<>>))
        ELSE IF tool_name = PyStr("get_pokemon_card_rarities")
             THEN route("/rarities", PyDict(<<>>))
        ELSE [exc |-> "", known |-> FALSE, endpoint |-> "", params |-> kwargs]

\* Lines 148-181: the endpoint and the query parameters of a tool.
\* exc: "" | "KeyError" (kwargs.pop of a missing key); known = FALSE is the
\* final else (the tool is not recognized, no request is made).
ToolRoute(tool_name, kwargs) ==
    LET route(endpoint, params) ==
            [exc |-> "", known |-> TRUE, endpoint |-> endpoint, params |-> params]
        missing(k) ==
            [exc |-> "KeyError", known |-> TRUE, endpoint |-> "'" \o k \o "'",
             params |-> kwargs]
    IN  IF tool_name = PyStr("get_pokemon_card_price") THEN route("/card_price", kwargs)
        ELSE IF tool_name = PyStr("search_pokemon_cards") THEN route("/cards", kwargs)
        ELSE IF tool_name = PyStr("get_pokemon_card_by_id") THEN
            IF ~HasKey(kwargs, "card_id") THEN missing("card_id")
            ELSE route("/cards/" \o PyFormat(DictGet(kwargs, "card_id", None)),
                       PyDict(<<>>))
        ELSE IF tool_name = PyStr("get_pokemon_sets") THEN route("/sets", kwargs)
        ELSE IF tool_name = PyStr("get_pokemon_set_by_id") THEN
            IF ~HasKey(kwargs, "set_id") THEN missing("set_id")
            ELSE route("/sets/" \o PyFormat(DictGet(kwargs, "set_id", None)),
                       PyDict(<<>>))
        ELSE IF tool_name = PyStr("get_pokemon_card_types")
             THEN route("/types", PyDict(<<>>))
        ELSE IF tool_name = PyStr("get_pokemon_card_supertypes")
             THEN route("/supertypes", PyDict(<<>>))
        ELSE IF tool_name = PyStr("get_pokemon_card_subtypes")
             THEN route("/subtypes", PyDict(<<>>))
        ELSE IF tool_name = PyStr("get_pokemon_card_rarities")
             THEN route("/rarities", PyDict(<<>>))
        ELSE [exc |-> "", known |-> FALSE, endpoint |-> "", params |-> kwargs]

\* The outcomes of requests.get(full_url, params=params, timeout=15):
\*   [kind |-> "Timeout"], [kind |-> "ConnectionError"], or a response
\*   [kind |-> "response", status_code, reason, content_type, body].
HttpTimeout == [kind |-> "Timeout", status_code |-> 0, reason |-> "",
                content_type |-> "", body |-> ""]
HttpConnectionError == [kind |-> "ConnectionError", status_code |-> 0, reason |-> "",
                        content_type |-> "", body |-> ""]
HttpResponse(status_code, reason, content_type, body) ==
    [kind |-> "response", status_code |-> status_code, reason |-> reason,
     content_type |-> content_type, body |-> body]

ToolStatus(status, message) ==
    PyDict(<< <<"status", PyStr(status)>>, <<"message", PyStr(message)>> >>)

\* Lines 183-193: the result of the try block for the outcome http of the GET.
\* json_exc is the class response.json() raises on an unparseable body:
\* "RequestException" (requests.exceptions.JSONDecodeError, requests >= 2.27)
\* or "JSONDecodeError" (json.JSONDecodeError, older releases).
ToolOutcome(full_url, http, json_exc) ==
    IF http.kind = "Timeout"
    THEN ToolStatus("server_error",
            "Failed to connect to MCP server: Request timed out after 15 seconds.")
    ELSE IF http.kind = "ConnectionError"
    THEN ToolStatus("server_error",
            "Failed to connect to MCP server or request failed: connection failed")
    ELSE IF http.status_code >= 400 /\ http.status_code < 600
    THEN ToolStatus("server_error",
            "Failed to connect to MCP server or request failed: "
            \o IntToStr(http.status_code)
            \o (IF http.status_code < 500 THEN " Client Error: " ELSE " Server Error: ")
            \o http.reason \o " for url: " \o full_url)
    ELSE Bind(json_loads(http.body), LAMBDA doc :
         IF doc.ok
         THEN PyDict(<< <<"status", PyStr("success")>>, <<"data", doc.val>> >>)
         ELSE IF json_exc = "RequestException"
         THEN ToolStatus("server_error",
                "Failed to connect to MCP server or request failed: Expecting value")
         ELSE ToolStatus("error", "Invalid JSON response from MCP server."))

\* execute_tool_call without the return of line 181: an unrecognized tool goes
\* on to the GET with the empty endpoint.
execute_tool_call_NoReturn(tool_name, kwargs, http, json_exc) ==
    Bind(ToolRoute(tool_name, kwargs), LAMBDA r :
        IF r.exc # "" THEN [exc |-> r.exc, msg |-> r.endpoint, val |-> None, gets |-> 0]
        ELSE [exc |-> "", msg |-> "", gets |-> 1,
              val |-> ToolOutcome(APP_URL \o r.endpoint, http, json_exc)])

\* execute_tool_call that gives up before the GET.
execute_tool_call_NoGet(tool_name, kwargs, http, json_exc) ==
    [exc |-> "", msg |-> "", gets |-> 0,
     val |-> ToolStatus("server_error", "Failed to connect to MCP server")]

\* execute_tool_call(tool_name, **kwargs) when the GET, if one is made, has the
\* outcome http: [exc, msg, val, gets].  exc = "" is a normal return of val;
\* gets is the number of GETs issued.
execute_tool_call(tool_name, kwargs, http, json_exc) ==
    Bind(ToolRoute(tool_name, kwargs), LAMBDA r :
        IF r.exc # "" THEN [exc |-> r.exc, msg |-> r.endpoint, val |-> None, gets |-> 0]
        ELSE IF ~r.known
        THEN [exc |-> "", msg |-> "", gets |-> 0,
              val |-> ToolStatus("error",
                        "Tool '" \o PyFormat(tool_name)
                        \o "' not recognized by orchestrator.")]
        ELSE [exc |-> "", msg |-> "", gets |-> 1,
              val |-> ToolOutcome(APP_URL \o r.endpoint, http, json_exc)])

-----------------------------------------------------------------------------
(* The dispatch loop: orchestrator_app.py main, lines 213-300 *)

ErrorObject(code, message) ==
    PyDict(<< <<"code", PyInt(code)>>, <<"message", PyStr(message)>> >>)

\* NewResponse with the id left null.
NewResponse_NullId(id) == PyDict(<< <<"jsonrpc", PyStr("2.0")>>, <<"id", None>> >>)

\* Lines 227-230: the response under construction for a request with an id.
NewResponse(id) == PyDict(<< <<"jsonrpc", PyStr("2.0")>>, <<"id", id>> >>)

\* Lines 285-289: the response of the except json.JSONDecodeError clause.
ParseErrorResponse ==
    DictSet(NewResponse(None), "error",
            ErrorObject(-32700, "Parse error: Invalid JSON was received by the server."))

\* Lines 294-299: the response of the except Exception clause; rid is the local
\* request_id as the handler finds it.
ExceptionResponse(rid, text) ==
    DictSet(NewResponse(IF rid = Unbound THEN None ELSE rid), "error",
            ErrorObject(-32000, "Server error: " \o text))

\* Lines 239-245
InitializeResult ==
    PyDict(<< <<"capabilities", PyDict(<<>>)>>,
              <<"serverInfo",
                PyDict(<< <<"name", PyStr("Pok" \o NonAscii \o "mon TCG MCP Orchestrator")>>,
                          <<"version", PyStr("1.0.0")>> >>)>> >>)

\* Lines 266-273: the response to a tool call that returned tool_result.
ToolResponse(response_obj, tool_result) ==
    IF DictGet(tool_result, "status", None) = PyStr("success")
    THEN DictSet(response_obj, "result", DictGet(tool_result, "data", None))
    ELSE DictSet(response_obj, "error",
            PyDict(<< <<"code", PyInt(-32000)>>,
                      <<"message", DictGet(tool_result, "message",
                                           PyStr("An unknown error occurred."))>>,
                      <<"data", PyDict(<< <<"status",
                                            DictGet(tool_result, "status", None)>> >>)>>
                   >>))

\* LLM tool definitions (lines 50-140): the names of TOOLS.
TOOLS ==
    {"get_pokemon_card_price", "search_pokemon_cards", "get_pokemon_sets",
     "get_pokemon_card_types", "get_pokemon_card_rarities",
     "get_pokemon_card_supertypes", "get_pokemon_card_subtypes",
     "get_pokemon_card_by_id", "get_pokemon_set_by_id"}

\* The outcome of one pass through the body of the while loop.
\*   stdin       what is left of the input
\*   writes      the values passed to write_message, in order
\*   request_id  the local request_id afterwards
\*   brk         the loop was left (break)
\*   branch      the branch that handled the message
\*   req         the message read (None when none was)
\*   gets        the number of GETs issued
Pass(rest, writes, rid, brk, branch, req, gets) ==
    [stdin |-> rest, writes |-> writes, request_id |-> rid, brk |-> brk,
     branch |-> branch, req |-> req, gets |-> gets]

\* ShutdownBranch without the break of line 254.
ShutdownBranch_NoBreak(rest, request_obj, rid, response_obj) ==
    Pass(rest,
         <<IF response_obj # None THEN DictSet(response_obj, "result", None) ELSE None>>,
         rid, FALSE, "shutdown", request_obj, 0)

\* Lines 249-254: the shutdown branch; the write at line 253 is made whether or
\* not there is a response object.
ShutdownBranch(rest, request_obj, rid, response_obj) ==
    Pass(rest,
         <<IF response_obj # None THEN DictSet(response_obj, "result", None) ELSE None>>,
         rid, TRUE, "shutdown", request_obj, 0)

\* ExitBranch that falls through to the write of lines 280-281 and stays in
\* the loop, as the initialized branch does.
ExitBranch_FallsThrough(rest, request_obj, rid, response_obj) ==
    Pass(rest, IF response_obj # None THEN <<response_obj>> ELSE <<>>, rid, FALSE,
         "exit", request_obj, 0)

\* Lines 255-257: the exit branch.
ExitBranch(rest, request_obj, rid, response_obj) ==
    Pass(rest, <<>>, rid, TRUE, "exit", request_obj, 0)

\* Lines 222-281 for a message request_obj that is a dict.
Dispatch(rest, request_obj, http, json_exc) ==
    LET jsonrpc_version == DictGet(request_obj, "jsonrpc", None)
        rid == DictGet(request_obj, "id", None)
        method_name == DictGet(request_obj, "method", None)
        params == DictGet(request_obj, "params", PyDict(<<>>))
        response_obj == IF rid # None THEN NewResponse(rid) ELSE None
        \* lines 279-281
        finish(resp, branch, gets) ==
            Pass(rest, IF resp # None THEN <<resp>> ELSE <<>>, rid, FALSE, branch,
                 request_obj, gets)
        raised(text) ==
            Pass(rest, <<ExceptionResponse(rid, text)>>, rid, FALSE, "tool_exception",
                 request_obj, 0)
    IN  IF jsonrpc_version # PyStr("2.0") THEN
            finish(IF response_obj # None
                   THEN DictSet(response_obj, "error",
                          ErrorObject(-32600, "Invalid JSON-RPC version. Expected '2.0'."))
                   ELSE None, "version", 0)
        ELSE IF method_name = PyStr("initialize") THEN
            finish(IF response_obj # None
                   THEN DictSet(response_obj, "result", InitializeResult)
                   ELSE None, "initialize", 0)
        ELSE IF method_name = PyStr("initialized") THEN
            finish(response_obj, "initialized", 0)
        ELSE IF method_name = PyStr("shutdown") THEN
            ShutdownBranch(rest, request_obj, rid, response_obj)
        ELSE IF method_name = PyStr("exit") THEN
            ExitBranch(rest, request_obj, rid, response_obj)
        ELSE IF method_name = None THEN
            finish(IF response_obj # None
                   THEN DictSet(response_obj, "error",
                          ErrorObject(-32600, "Invalid Request: 'method' is required."))
                   ELSE None, "no_method", 0)
        ELSE IF rid = None THEN finish(None, "notification", 0)
        ELSE IF params.t # "dict" THEN
            raised("__main__.execute_tool_call() argument after ** must be a mapping, not "
                   \o (IF params.t = "None" THEN "NoneType" ELSE params.t))
        ELSE IF HasKey(params, "tool_name") THEN
            raised("execute_tool_call() got multiple values for argument 'tool_name'")
        ELSE Bind(execute_tool_call(method_name, params, http, json_exc), LAMBDA call :
             IF call.exc # "" THEN raised(call.msg)
             ELSE finish(ToolResponse(response_obj, call.val), "tool", call.gets))

\* Lines 216-300: the rest of the loop body once read_message (line 215) had the
\* outcome r, with request_id_ the local left by the earlier passes.
Handle(r, request_id_, http, json_exc) ==
    IF r.exc = "JSONDecodeError" THEN
        Pass(r.rest, <<ParseErrorResponse>>, request_id_, FALSE, "parse_error", None, 0)
    ELSE IF r.exc # "" THEN
        Pass(r.rest, <<ExceptionResponse(request_id_, r.msg)>>, request_id_, FALSE,
             "read_exception", None, 0)
    ELSE IF r.val = None THEN
        Pass(r.rest, <<>>, request_id_, TRUE, "end", None, 0)
    ELSE IF r.val.t # "dict" THEN
        Pass(r.rest,
             <<ExceptionResponse(request_id_,
                    "'" \o r.val.t \o "' object has no attribute 'get'")>>,
             request_id_, FALSE, "not_an_object", r.val, 0)
    ELSE Dispatch(r.rest, r.val, http, json_exc)

\* One pass through the body of the while loop (lines 214-300) on the input
\* stream.
MainPass(stream, request_id_, http, json_exc) ==
    Handle(read_message(stream), request_id_, http, json_exc)

-----------------------------------------------------------------------------
(* Pagination: app.py paginate_results (lines 86-109), tcg_service.py      *)
(* paginate_results (lines 60-86) and the pagination blocks of             *)
(* get_cards_service / get_sets_service                                    *)

\* results[start:end] of a list (Python slice semantics, negative indices
\* count from the end).
PySlice(xs, start, end) ==
    LET n == Len(xs)
        norm(i) == IF i < 0 THEN (IF i + n < 0 THEN 0 ELSE i + n)
                   ELSE (IF i > n THEN n ELSE i)
        a == norm(start)
        b == norm(end)
    IN  IF a >= b THEN <<>> ELSE SubSeq(xs, a + 1, b)

\* total_pages with the division rounded down.
total_pages_Floor(total_items, limit) ==
    IF limit > 0 THEN total_items \div limit ELSE 1

\* math.ceil(total_items / limit) if limit > 0 else 1
total_pages(total_items, limit) ==
    IF limit > 0
    THEN (IF total_items % limit = 0 THEN total_items \div limit
          ELSE (total_items \div limit) + 1)
    ELSE 1

PaginationBlock(total_items, page, limit) ==
    [total_items |-> total_items, total_pages |-> total_pages(total_items, limit),
     current_page |-> page, items_per_page |-> limit]

\* paginate_results that counts pages from zero.
paginate_results_ZeroBased(results, page, limit) ==
    [data |-> PySlice(results, page * limit, page * limit + limit),
     pagination |-> PaginationBlock(Len(results), page, limit)]

\* paginate_results(results, page, limit) for a list results.
paginate_results(results, page, limit) ==
    LET total_items == Len(results)
        start_index == (page - 1) * limit
        end_index == start_index + limit
    IN  [data |-> PySlice(results, start_index, end_index),
         pagination |-> PaginationBlock(total_items, page, limit)]

\* tcg_service.py get_cards_service / get_sets_service (lines 112-124, 169-180)
\* for an upstream answer with the given data and totalCount.
get_cards_service(data, total_count, page, limit) ==
    [data |-> data, pagination |-> PaginationBlock(total_count, page, limit)]
get_sets_service(data, total_count, page, limit) ==
    [data |-> data, pagination |-> PaginationBlock(total_count, page, limit)]

PyPagination(b) ==
    PyDict(<< <<"total_items", PyInt(b.total_items)>>,
              <<"total_pages", PyInt(b.total_pages)>>,
              <<"current_page", PyInt(b.current_page)>>,
              <<"items_per_page", PyInt(b.items_per_page)>> >>)

-----------------------------------------------------------------------------
(* The data gateway: app.py *)

\* An HTTP request as Flask hands it to a view: the route, the path parameter
\* (card_id / set_id, "" when the route has none) and request.args, a dict of
\* str values.
GwRequest(route, path_id, args) == [route |-> route, path_id |-> path_id, args |-> args]

\* The outcome of the SDK call a view makes (Card.where, Card.all, Card.find,
\* Set.where, ..., Type.all): it raises, or returns the items found (find: one
\* item or none).  priced: the first card carries TCGPlayer market prices.
SdkRaises == [kind |-> "raise", items |-> <<>>, priced |-> FALSE]
SdkReturns(items, priced) == [kind |-> "return", items |-> items, priced |-> priced]

\* jsonify(body), status: the response Flask sends.  The body is laid out as
\* json.dumps lays it out; Flask's JSON provider sorts the keys and may leave
\* out the spaces, a difference json.loads on the other side does not see.
Jsonify(body, status_code, reason) ==
    HttpResponse(status_code, reason, "application/json", json_dumps(body))

\* An exception that leaves a view: Flask answers 500 with an HTML page.
Unhandled ==
    HttpResponse(500, "INTERNAL SERVER ERROR", "text/html",
                 "<!doctype html><title>500 Internal Server Error</title>")

ErrorBody(status, message) ==
    PyDict(<< <<"status", PyStr(status)>>, <<"message", PyStr(message)>> >>)

\* The except clause every view ends with (for example lines 186-193).
ServerError == Jsonify(ErrorBody("server_error", "An error occurred: upstream failure"),
                       500, "INTERNAL SERVER ERROR")

\* args without the keys page and limit (line 147).
RECURSIVE FilterItems(_, _)
FilterItems(items, i) ==
    IF i > Len(items) THEN <<>>
    ELSE (IF items[i][1] \in {"page", "limit"} THEN <<>> ELSE <<items[i]>>)
         \o FilterItems(items, i + 1)

\* GET /cards (lines 139-193)
get_cards(args, sdk) ==
    Bind2(ParseInt(DictGet(args, "page", PyStr("1")).v),
          ParseInt(DictGet(args, "limit", PyStr("20")).v), LAMBDA page, limit :
    LET query_params == PyDict(FilterItems(args.v, 1))
        q_string == query_params.v # <<>>
        paginated_response == paginate_results(sdk.items, page.val, limit.val)
    IN  IF ~page.ok \/ ~limit.ok THEN Unhandled
        ELSE IF limit.val <= 0
        THEN Jsonify(ErrorBody("error", "Limit must be a positive integer."),
                     400, "BAD REQUEST")
        ELSE IF page.val <= 0
        THEN Jsonify(ErrorBody("error", "Page must be a positive integer."),
                     400, "BAD REQUEST")
        ELSE IF sdk.kind = "raise" THEN ServerError
        ELSE IF paginated_response.data = <<>> /\ q_string
        THEN Jsonify(PyDict(<< <<"status", PyStr("not_found")>>,
                               <<"query", query_params>>,
                               <<"message", PyStr("No Pok" \o NonAscii
                                    \o "mon cards found matching your criteria.")>> >>),
                     404, "NOT FOUND")
        ELSE Jsonify(PyDict(<< <<"status", PyStr("success")>>,
                               <<"results", PyList(paginated_response.data)>>,
                               <<"pagination",
                                 PyPagination(paginated_response.pagination)>> >>),
                     200, "OK"))

\* GET /sets (lines 300-346)
get_sets(args, sdk) ==
    Bind2(ParseInt(DictGet(args, "page", PyStr("1")).v),
          ParseInt(DictGet(args, "limit", PyStr("20")).v), LAMBDA page, limit :
    LET set_name == DictGet(args, "name", None)
        named == set_name # None /\ set_name.v # ""
        paginated_response == paginate_results(sdk.items, page.val, limit.val)
    IN  IF ~page.ok \/ ~limit.ok THEN Unhandled
        ELSE IF limit.val <= 0 \/ page.val <= 0
        THEN Jsonify(ErrorBody("error", "Page and limit must be positive integers."),
                     400, "BAD REQUEST")
        ELSE IF sdk.kind = "raise" THEN ServerError
        ELSE IF paginated_response.data = <<>> /\ named
        THEN Jsonify(PyDict(<< <<"status", PyStr("not_found")>>,
                               <<"query", PyDict(<< <<"name", set_name>> >>)>>,
                               <<"message", PyStr("No Pok" \o NonAscii
                                    \o "mon sets found matching your criteria.")>> >>),
                     404, "NOT FOUND")
        ELSE Jsonify(PyDict(<< <<"status", PyStr("success")>>,
                               <<"results", PyList(paginated_response.data)>>,
                               <<"pagination",
                                 PyPagination(paginated_response.pagination)>> >>),
                     200, "OK"))

\* GET /cards/<card_id> and GET /sets/<set_id> (lines 195-224, 348-377); kind is
\* "card" or "set".
get_by_id(kind, path_id, sdk) ==
    IF sdk.kind = "raise" THEN ServerError
    ELSE IF sdk.items = <<>>
    THEN Jsonify(PyDict(<< <<"status", PyStr("not_found")>>,
                           <<kind \o "_id", PyStr(path_id)>>,
                           <<"message", PyStr("No Pok" \o NonAscii \o "mon " \o kind
                                \o " found with ID '" \o path_id \o "'.")>> >>),
                 404, "NOT FOUND")
    ELSE Jsonify(PyDict(<< <<"status", PyStr("success")>>, <<kind, sdk.items[1]>> >>),
                 200, "OK")

\* GET /card_price (lines 226-295)
get_card_price(args, sdk) ==
    LET card_name == DictGet(args, "card_name", None)
        card == sdk.items[1]
        name == DictGet(card, "name", None)
    IN  IF card_name = None \/ card_name.v = ""
        THEN Jsonify(ErrorBody("error", "Missing 'card_name' query parameter."),
                     400, "BAD REQUEST")
        ELSE IF sdk.kind = "raise" THEN ServerError
        ELSE IF sdk.items = <<>>
        THEN Jsonify(PyDict(<< <<"status", PyStr("not_found")>>,
                               <<"card_name", card_name>>,
                               <<"message", PyStr("No Pok" \o NonAscii
                                    \o "mon card found with the name '"
                                    \o card_name.v \o "'.")>> >>),
                     200, "OK")
        ELSE IF ~sdk.priced
        THEN Jsonify(PyDict(<< <<"status", PyStr("no_price_data")>>,
                               <<"card_name", name>>,
                               <<"card_id", DictGet(card, "id", None)>>,
                               <<"card_image", None>>,
                               <<"message", PyStr("No TCGPlayer price data available for '"
                                    \o name.v \o "'.")>> >>),
                     200, "OK")
        ELSE Jsonify(PyDict(<< <<"status", PyStr("success")>>,
                               <<"card_name", name>>,
                               <<"card_id", DictGet(card, "id", None)>>,
                               <<"set_name", None>>,
                               <<"rarity", None>>,
                               <<"card_image", None>>,
                               <<"prices", PyDict(<< <<"normal", PyInt(3)>> >>)>>,
                               <<"message", PyStr("Price data retrieved for '"
                                    \o name.v \o "'.")>> >>),
                     200, "OK")

\* GET /types, /supertypes, /subtypes, /rarities (lines 381-459); key is the
\* name of the list in the body.
get_list(key, sdk) ==
    IF sdk.kind = "raise" THEN ServerError
    ELSE Jsonify(PyDict(<< <<"status", PyStr("success")>>, <<key, PyList(sdk.items)>> >>),
                 200, "OK")

\* GET / (lines 129-135)
home ==
    HttpResponse(200, "OK", "text/html; charset=utf-8",
                 "Pok" \o NonAscii \o "mon TCG MCP Server is running!")

\* The answer to a path no route matches.
NotFoundPage ==
    HttpResponse(404, "NOT FOUND", "text/html; charset=utf-8",
                 "<!doctype html><title>404 Not Found</title>")

\* The JSON endpoints (the app.route decorators but the one of home).
GatewayRoutes ==
    {"/cards", "/cards/<id>", "/card_price", "/sets", "/sets/<id>",
     "/types", "/supertypes", "/subtypes", "/rarities"}

\* The request Flask makes of GET endpoint?args, by the rules of the app.route
\* decorators; <string:...> matches a non-empty segment without a slash.
\* (The bridge asks for APP_URL + endpoint, a path with a doubled leading
\* slash, which the router merges.)
UrlMap(endpoint, args) ==
    LET under(prefix) ==
            /\ Len(endpoint) > Len(prefix)
            /\ Slice(endpoint, 1, Len(prefix)) = prefix
            /\ Find(endpoint, "/", Len(prefix) + 1) = 0
    IN  IF endpoint \in {"", "/"} THEN GwRequest("/", "", args)
        ELSE IF endpoint \in GatewayRoutes \ {"/cards/<id>", "/sets/<id>"}
        THEN GwRequest(endpoint, "", args)
        ELSE IF under("/cards/")
        THEN GwRequest("/cards/<id>", Slice(endpoint, 8, Len(endpoint)), args)
        ELSE IF under("/sets/")
        THEN GwRequest("/sets/<id>", Slice(endpoint, 7, Len(endpoint)), args)
        ELSE GwRequest("none", "", args)

\* The view Flask routes the request to.
View(req, sdk) ==
    CASE req.route = "/"            -> home
      [] req.route = "none"         -> NotFoundPage
      [] req.route = "/cards"       -> get_cards(req.args, sdk)
      [] req.route = "/cards/<id>"  -> get_by_id("card", req.path_id, sdk)
      [] req.route = "/card_price"  -> get_card_price(req.args, sdk)
      [] req.route = "/sets"        -> get_sets(req.args, sdk)
      [] req.route = "/sets/<id>"   -> get_by_id("set", req.path_id, sdk)
      [] req.route = "/types"       -> get_list("types", sdk)
      [] req.route = "/supertypes"  -> get_list("supertypes", sdk)
      [] req.route = "/subtypes"    -> get_list("subtypes", sdk)
      [] req.route = "/rarities"    -> get_list("rarities", sdk)

\* initialize_pokemontcgsdk that sets the flag before the import, so that a
\* failed import leaves it set.
initialize_pokemontcgsdk_FlagFirst(g, import_ok) ==
    IF ~g.initialized
    THEN (IF import_ok
          THEN [initialized |-> TRUE, sdk |-> "module", raised |-> FALSE, imported |-> TRUE]
          ELSE [initialized |-> TRUE, sdk |-> "None", raised |-> TRUE, imported |-> TRUE])
    ELSE [initialized |-> g.initialized, sdk |-> g.sdk, raised |-> FALSE,
          imported |-> FALSE]

\* initialize_pokemontcgsdk (lines 21-54) from the globals g =
\* [initialized, sdk], when the import succeeds (import_ok) or raises:
\* [initialized, sdk, raised, imported]; imported: the try block of lines
\* 31-45 (the import and the key assignment) was entered.
initialize_pokemontcgsdk(g, import_ok) ==
    IF ~g.initialized
    THEN (IF import_ok
          THEN [initialized |-> TRUE, sdk |-> "module", raised |-> FALSE, imported |-> TRUE]
          ELSE [initialized |-> FALSE, sdk |-> "None", raised |-> TRUE, imported |-> TRUE])
    ELSE [initialized |-> g.initialized, sdk |-> g.sdk, raised |-> FALSE,
          imported |-> FALSE]

\* before_any_request (lines 111-126) followed by the view: the globals
\* afterwards and the response.
Serve(g, req, import_ok, sdk) ==
    LET i == initialize_pokemontcgsdk(g, import_ok) IN
    [initialized |-> i.initialized, sdk |-> i.sdk,
     imported |-> i.imported, view |-> ~i.raised,
     response |->
        IF i.raised
        THEN Jsonify(ErrorBody("server_error",
                "Critical server error: SDK initialization failed. "
                \o "Please check server logs. Error: No module named 'pokemontcgsdk'"),
                500, "INTERNAL SERVER ERROR")
        ELSE View(req, sdk)]

-----------------------------------------------------------------------------
(* The environment: the SDK behind the gateway, the network between the    *)
(* bridge and the gateway, and the client on the bridge's stdin            *)

MaxItems == 2
MaxMsgs == 2

\* A card or set as serialize_tcg_object leaves it.
Item(i) ==
    PyDict(<< <<"id", PyStr("base1-" \o IntToStr(i))>>, <<"name", PyStr("Charizard")>> >>)
Catalog(n) == [i \in 1..n |-> Item(i)]

\* What the SDK call of a view may do.
SdkOutcomes ==
    {SdkRaises, SdkReturns(Catalog(1), FALSE)}
    \cup {SdkReturns(Catalog(n), TRUE) : n \in 0..MaxItems}
NoWorld == [kind |-> "none", items |-> <<>>, priced |-> FALSE]

\* request.args for the params requests.get was given: a value of None is
\* left out, every other value is sent as its str().
RECURSIVE QueryItems(_, _)
QueryItems(items, i) ==
    IF i > Len(items) THEN <<>>
    ELSE (IF items[i][2] = None THEN <<>>
          ELSE << <<items[i][1], PyStr(PyFormat(items[i][2]))>> >>)
         \o QueryItems(items, i + 1)
QueryArgs(params) == PyDict(QueryItems(params.v, 1))

\* The globals of the gateway process.
Globals == [initialized |-> _pokemontcgsdk_initialized, sdk |-> _pokemontcgsdk]

\* An outcome of one GET: what requests.get gives the bridge (http), the
\* globals of the gateway afterwards, the request the gateway served (served,
\* req) and what its SDK call did (world).
Outcome(net, http, g, served, req, world) ==
    [net |-> net, http |-> http, initialized |-> g.initialized, sdk |-> g.sdk,
     served |-> served, req |-> req, world |-> world]

\* The gateway serves req.
Served(req) ==
    LET by(import_ok, world) ==
            Bind(Serve(Globals, req, import_ok, world), LAMBDA s :
                Outcome("gateway", s.response, s, TRUE, req, world))
    IN  {by(TRUE, world) : world \in SdkOutcomes}
        \cup {by(FALSE, world) :
                world \in IF _pokemontcgsdk_initialized THEN SdkOutcomes ELSE {NoWorld}}

\* Something between the bridge and the gateway answers in its place.
ProxyResponses ==
    {HttpResponse(502, "Bad Gateway", "text/html", "<html>Bad Gateway</html>"),
     HttpResponse(200, "OK", "text/html", "<html>Starting</html>"),
     HttpResponse(200, "OK", "text/plain", "{\"status\": \"success\"}")}

NoRequest == GwRequest("none", "", PyDict(<<>>))

\* Every outcome of GET req: no connection, no answer within the timeout
\* (whether or not the gateway served the request), an answer of the gateway,
\* an answer of something in between.
Upstream(req) ==
    Bind(Served(req), LAMBDA served :
        {Outcome("ConnectionError", HttpConnectionError, Globals, FALSE, NoRequest, NoWorld),
         Outcome("Timeout", HttpTimeout, Globals, FALSE, NoRequest, NoWorld)}
        \cup {Outcome("Timeout", HttpTimeout, o, TRUE, req, NoWorld) : o \in served}
        \cup {Outcome("proxy", h, Globals, FALSE, NoRequest, NoWorld) : h \in ProxyResponses}
        \cup served)

JsonExcs == {"RequestException", "JSONDecodeError"}

\* A message of the client: the members that are given (Unbound: left out).
Request(version, id, method, params) ==
    PyDict((IF version = Unbound THEN <<>> ELSE << <<"jsonrpc", version>> >>)
           \o (IF id = Unbound THEN <<>> ELSE << <<"id", id>> >>)
           \o (IF method = Unbound THEN <<>> ELSE << <<"method", method>> >>)
           \o (IF params = Unbound THEN <<>> ELSE << <<"params", params>> >>))

Args(items) == PyDict(items)

\* The tool calls the client makes: <<method, params>>.
ClientToolCalls ==
    {<<"search_pokemon_cards",
       Args(<< <<"name", PyStr("Charizard")>>, <<"limit", PyInt(5)>>,
               <<"page", PyInt(1)>> >>)>>,
     <<"search_pokemon_cards", Args(<<>>)>>,
     <<"search_pokemon_cards",
       Args(<< <<"name", PyStr("Charizard")>>, <<"limit", PyInt(1)>>,
               <<"page", PyInt(2)>> >>)>>,
     <<"search_pokemon_cards", Args(<< <<"limit", PyInt(0)>> >>)>>,
     <<"search_pokemon_cards", Args(<< <<"page", PyStr("x")>> >>)>>,
     <<"search_pokemon_cards", Args(<< <<"tool_name", PyStr("x")>> >>)>>,
     <<"get_pokemon_card_by_id", Args(<< <<"card_id", PyStr("base1-4")>> >>)>>,
     <<"get_pokemon_card_by_id", Args(<<>>)>>,
     <<"get_pokemon_card_by_id", Args(<< <<"card_id", PyStr("a/b")>> >>)>>,
     <<"get_pokemon_card_price", Args(<< <<"card_name", PyStr("Pikachu")>> >>)>>,
     <<"get_pokemon_card_price", Args(<<>>)>>,
     <<"get_pokemon_sets", Args(<< <<"name", PyStr("Base")>> >>)>>,
     <<"get_pokemon_sets", Args(<< <<"page", PyInt(0)>> >>)>>,
     <<"get_pokemon_set_by_id", Args(<< <<"set_id", PyStr("base1")>> >>)>>,
     <<"get_pokemon_card_types", Args(<< <<"x", PyStr("y")>> >>)>>,
     <<"get_pokemon_card_supertypes", Args(<<>>)>>,
     <<"get_pokemon_card_subtypes", Args(<<>>)>>,
     <<"get_pokemon_card_rarities", Unbound>>,
     <<"foo_bar", Args(<<>>)>>,
     <<"foo_bar", PyList(<<PyInt(1)>>)>>,
     <<"foo_bar", None>>}

V2 == PyStr("2.0")

ClientRequests ==
    {Request(V2, id, PyStr(m), Unbound) :
        id \in {Unbound, None, PyInt(1)},
        m \in {"initialize", "initialized", "shutdown", "exit", "foo_bar"}}
    \cup {Request(V2, id, Unbound, Unbound) : id \in {Unbound, PyInt(2)}}
    \cup {Request(PyStr("1.0"), id, PyStr(m), Unbound) :
            id \in {Unbound, PyInt(2)}, m \in {"shutdown", "exit"}}
    \cup {Request(V2, PyInt(2), PyStr(c[1]), c[2]) : c \in ClientToolCalls}
    \cup {Request(V2, Unbound, PyStr(c[1]), c[2]) :
            c \in {d \in ClientToolCalls : d[2] = Args(<<>>)}}
    \cup {Request(Unbound, PyInt(1), PyStr("initialize"), Unbound),
          Request(V2, PyInt(1), PyInt(7), Unbound),
          Request(V2, PyStr("a"), PyStr(""), Unbound)}

\* Byte sequences that are not the frame of a message.
OtherChunks ==
    {"Content-Length: 4\r\n\r\n{bad",
     "Content-Length: 2\r\n\r\n" \o BadByte \o BadByte,
     "Content-Length: 5\r\nContent-Type: application/json\r\n\r\n{\"a\":1}",
     "Content-Length: 2\r\n\r\n[]",
     "Content-Length: 4\r\n\r\nnull",
     "Content-Length: 0\r\n\r\n",
     "Content-Length: -1\r\n\r\n{}",
     "Content-Length: abc\r\n\r\n",
     "Content-Length\r\n\r\n",
     "Content-Type: application/json\r\n\r\n{}",
     BadByte \o "\r\n",
     "\r\n",
     "Content-Len",
     "Content-Length: 9\r\n\r\n{}"}

ClientChunks == {FrameOf(m) : m \in ClientRequests} \cup OtherChunks

-----------------------------------------------------------------------------
(* The bridge process (orchestrator_app.py main) with its client and the   *)
(* gateway it calls                                                        *)

NoCall == Outcome("none", HttpTimeout, [initialized |-> FALSE, sdk |-> "None"],
                  FALSE, NoRequest, NoWorld)
NoPass == [pass |-> Pass("", <<>>, Unbound, FALSE, "none", None, 0),
           input |-> "", before |-> Unbound, call |-> NoCall]
NoGw == [req |-> NoRequest, response |-> HttpTimeout, world |-> NoWorld,
         before |-> FALSE, imported |-> FALSE, view |-> FALSE]
NoOut == [data |-> <<>>, pagination |-> PaginationBlock(0, 0, 0)]
\* A call of a pagination function: its arguments, and what it returned once
\* op names the function that was called.
PgCall(results, total_count, page, limit) ==
    [op |-> "none", results |-> results, total_count |-> total_count,
     page |-> page, limit |-> limit, out |-> NoOut, slices |-> <<>>]
NoPg == PgCall(<<>>, 0, 1, 1)

GatewayInit ==
    /\ _pokemontcgsdk_initialized = FALSE
    /\ _pokemontcgsdk = "None"
    /\ gw = NoGw

BridgeInit ==
    /\ stdin = ""
    /\ eof = FALSE
    /\ stdout = ""
    /\ request_id = Unbound
    /\ loop = "starting"
    /\ last = NoPass
    /\ nfed = 0

FramingInit == pipe = "" /\ written = <<>> /\ readback = <<>>

Init == BridgeInit /\ GatewayInit /\ FramingInit /\ pg = NoPg

\* The effect of an outcome of a GET on the gateway.
GatewayAfter(o) ==
    /\ _pokemontcgsdk_initialized' = o.initialized
    /\ _pokemontcgsdk' = o.sdk
    /\ UNCHANGED gw

\* Lines 198-205: the wake-up GET of APP_URL, whose outcome main ignores.
WakeUp ==
    /\ loop = "starting"
    /\ \E o \in Upstream(UrlMap("", PyDict(<<>>))) : GatewayAfter(o)
    /\ loop' = "running"
    /\ UNCHANGED <<stdin, eof, stdout, request_id, last, nfed, framing_vars, pg>>

\* A readline or read of read_message would wait for more bytes.
Starved == ~eof /\ read_message(stdin).short

\* The client takes the responses written so far and sends a chunk; it does so
\* when the bridge has read all it sent before.
Send ==
    /\ nfed < MaxMsgs
    /\ ~eof
    /\ stdin = ""
    /\ \E chunk \in ClientChunks : stdin' = stdin \o chunk
    /\ stdout' = ""
    /\ last' = NoPass
    /\ nfed' = nfed + 1
    /\ UNCHANGED <<eof, request_id, loop, gateway_vars, framing_vars, pg>>

\* The client closes its end of the pipe.
Close ==
    /\ Starved
    /\ eof' = TRUE
    /\ UNCHANGED <<stdin, stdout, request_id, loop, last, nfed, gateway_vars,
                   framing_vars, pg>>

RECURSIVE WriteAll(_, _, _)
\* The stream after write_message of messages[i], messages[i+1], ...
WriteAll(stream, messages, i) ==
    IF i > Len(messages) THEN stream
    ELSE WriteAll(write_message(stream, messages[i]), messages, i + 1)

\* The state of the bridge after the pass p of the loop body.
BridgeAfter(p, o) ==
    /\ stdin' = p.stdin
    /\ stdout' = WriteAll(stdout, p.writes, 1)
    /\ request_id' = p.request_id
    /\ loop' = IF p.brk THEN "terminated" ELSE "running"
    /\ last' = [pass |-> p, input |-> stdin, before |-> request_id, call |-> o]
    /\ UNCHANGED <<eof, nfed, framing_vars, pg>>

\* The tool call of the message main has read: the endpoint and the params.
RouteOf(request_obj) ==
    ToolRoute(DictGet(request_obj, "method", None),
              DictGet(request_obj, "params", PyDict(<<>>)))

\* One pass through the loop body (lines 214-300) that issues no GET.
Step ==
    /\ loop = "running"
    /\ \E r \in {read_message(stdin)} :
          /\ eof \/ ~r.short
          /\ \E p \in {Handle(r, request_id, HttpTimeout, "RequestException")} :
                /\ p.gets = 0
                /\ BridgeAfter(p, NoCall)
    /\ UNCHANGED gateway_vars

\* One pass through the loop body that calls a tool of the gateway: the GET of
\* execute_tool_call (line 185) has one of its outcomes.
ToolCall ==
    /\ loop = "running"
    /\ \E r \in {read_message(stdin)} :
          /\ eof \/ ~r.short
          /\ Handle(r, request_id, HttpTimeout, "RequestException").gets = 1
          /\ \E route \in {RouteOf(r.val)} :
             \E o \in Upstream(UrlMap(route.endpoint, QueryArgs(route.params))) :
             \E json_exc \in IF o.net = "proxy" THEN JsonExcs ELSE {"RequestException"} :
             \E p \in {Handle(r, request_id, o.http, json_exc)} :
                /\ BridgeAfter(p, o)
                /\ GatewayAfter(o)

Next ==
    \/ WakeUp
    \/ Send
    \/ Close
    \/ Step
    \/ ToolCall

Spec == Init /\ [][Next]_vars

-----------------------------------------------------------------------------
(* Properties of the dispatch loop *)

\* The latest pass read a message that is a JSON object.
ReadObject == last.pass.req.t = "dict"
LastId == DictGet(last.pass.req, "id", None)
LastMethod == DictGet(last.pass.req, "method", None)
\* ... a JSON-RPC 2.0 message with a non-null id.
ReadRequest == ReadObject /\ DictGet(last.pass.req, "jsonrpc", None) = V2 /\ LastId # None
\* The values the latest pass gave to write_message.
Writes == last.pass.writes
\* stdout ends with the bytes of the frame of message.
EndsWithFrame(message) ==
    Slice(stdout, Len(stdout) - Len(FrameOf(message)) + 1, Len(stdout)) = FrameOf(message)
\* The latest pass wrote exactly one frame, a response that carries id.
OneResponseWith(id) ==
    /\ Len(Writes) = 1
    /\ Writes[1].t = "dict"
    /\ DictGet(Writes[1], "id", Unbound) = id
    /\ EndsWithFrame(Writes[1])
ErrorCode(response) == DictGet(DictGet(response, "error", PyDict(<<>>)), "code", None)

\* C1 as stated: every JSON-RPC 2.0 request with a non-null id gets exactly one
\* response frame that carries its id, whatever the method (exit included).
C1_EveryRequestAnswered == ReadRequest => OneResponseWith(LastId)

\* C1, amended: every JSON-RPC 2.0 request with a non-null id and a method other
\* than exit gets exactly one response frame that carries its id; an exit with
\* an id gets no frame and ends the loop.
C1_EveryRequestButExitAnswered ==
    ReadRequest =>
        IF LastMethod = PyStr("exit")
        THEN Writes = <<>> /\ loop = "terminated"
        ELSE OneResponseWith(LastId)

\* A tool call with an id was answered after a GET.
C1_Witness ==
    /\ ReadRequest
    /\ LastMethod = PyStr("search_pokemon_cards")
    /\ last.pass.gets = 1
    /\ OneResponseWith(PyInt(2))

\* C2: a message whose id is null or absent and whose method is not exit gets
\* no frame at all, whatever the method or the jsonrpc version.
C2_NotificationsUnanswered ==
    (ReadObject /\ LastId = None /\ LastMethod # PyStr("exit")) => Writes = <<>>

\* C3: every frame written carries exactly one of result and error.
C3_ResultXorError ==
    \A i \in 1..Len(Writes) :
        /\ Writes[i].t = "dict"
        /\ HasKey(Writes[i], "result") # HasKey(Writes[i], "error")

\* C4: a shutdown request with an id is answered by one response with that id
\* and a null result, and the loop ends; once the loop has ended no input byte
\* is read and no output byte is written, whatever the client sends.
C4_ShutdownAnswered ==
    (ReadRequest /\ LastMethod = PyStr("shutdown")) =>
        /\ OneResponseWith(LastId)
        /\ Writes[1] = DictSet(NewResponse(LastId), "result", None)
        /\ loop = "terminated"
C4_TerminatedIsFinal ==
    loop = "terminated" =>
        /\ loop' = "terminated"
        /\ Slice(stdin', 1, Len(stdin)) = stdin
        /\ stdout' \in {stdout, ""}
        /\ last' \in {last, NoPass}
C4_Shutdown == [](C4_ShutdownAnswered) /\ [][C4_TerminatedIsFinal]_vars

C4_Witness ==
    /\ ReadRequest
    /\ LastMethod = PyStr("shutdown")
    /\ loop = "terminated"
    /\ stdout = FrameOf(DictSet(NewResponse(PyInt(1)), "result", None))

\* The method names main handles itself.
ReservedMethods == {"initialize", "initialized", "shutdown", "exit"}

\* C5: a request with an id whose method is neither reserved nor a known tool is
\* answered by an error with code -32000, without any HTTP call, and the loop
\* goes on.
C5_UnknownMethod ==
    (ReadRequest /\ LastMethod # None
        /\ (LastMethod.t = "str" => LastMethod.v \notin ReservedMethods \cup TOOLS)) =>
        /\ OneResponseWith(LastId)
        /\ ErrorCode(Writes[1]) = PyInt(-32000)
        /\ ~HasKey(Writes[1], "result")
        /\ last.pass.gets = 0
        /\ last.call = NoCall
        /\ loop = "running"

C5_Witness ==
    /\ ReadRequest
    /\ LastMethod = PyStr("foo_bar")
    /\ ErrorCode(Writes[1]) = PyInt(-32000)
    /\ loop = "running"

\* The header block of a frame whose payload has n bytes, without and with the
\* Content-Type header.
Headers(n) ==
    {"Content-Length: " \o IntToStr(n) \o "\r\n\r\n",
     "Content-Length: " \o IntToStr(n) \o "\r\nContent-Type: application/json\r\n\r\n"}
\* bytes is a well-formed header block followed by a payload of the length it
\* declares, and the payload is not a JSON text.
NotJsonFrame(bytes) ==
    \E n \in 1..Len(bytes) : \E h \in Headers(n) :
        /\ Slice(bytes, 1, Len(h)) = h
        /\ Len(bytes) >= Len(h) + n
        /\ \/ ~DecodesUtf8(Slice(bytes, Len(h) + 1, Len(h) + n))
           \/ ~json_loads(Slice(bytes, Len(h) + 1, Len(h) + n)).ok

\* C6: a frame with a well-formed header and a payload that is not valid JSON is
\* answered by exactly one error response with code -32700 and id null, and the
\* loop goes on.
C6_ParseError ==
    (last.pass.branch # "none" /\ NotJsonFrame(last.input)) =>
        /\ OneResponseWith(None)
        /\ ErrorCode(Writes[1]) = PyInt(-32700)
        /\ loop = "running"

\* C7: a search_pokemon_cards request with a name filter for which the SDK
\* finds no card is answered with a result, not an error, whose
\* pagination.total_items is 0 and whose data is an empty list.
C7_ZeroMatchesIsResult ==
    (/\ ReadRequest
     /\ LastMethod = PyStr("search_pokemon_cards")
     /\ DictGet(last.pass.req, "params", PyDict(<<>>)).t = "dict"
     /\ HasKey(DictGet(last.pass.req, "params", PyDict(<<>>)), "name")
     /\ last.call.net = "gateway"
     /\ last.call.world = SdkReturns(<<>>, TRUE)) =>
        /\ OneResponseWith(LastId)
        /\ HasKey(Writes[1], "result")
        /\ ~HasKey(Writes[1], "error")
        /\ DictGet(DictGet(DictGet(Writes[1], "result", PyDict(<<>>)),
                           "pagination", PyDict(<<>>)), "total_items", None) = PyInt(0)
        /\ DictGet(DictGet(Writes[1], "result", PyDict(<<>>)), "data", None) = PyList(<<>>)

-----------------------------------------------------------------------------
(* Pagination on its own: paginate_results and the service functions       *)

MaxTotal == 5
MaxPage == 3
MaxLimit == 3
MaxBeyond == 2

PaginateInit ==
    /\ BridgeInit /\ GatewayInit /\ FramingInit
    /\ pg \in {PgCall(Catalog(n), total_count, page, limit) :
                n \in 0..MaxTotal, total_count \in 0..MaxTotal,
                page \in -1..MaxPage, limit \in -1..MaxLimit}

Returns(op, out) ==
    /\ pg.op = "none"
    /\ pg' = [pg EXCEPT !.op = op, !.out = out]
    /\ UNCHANGED <<bridge_vars, gateway_vars, framing_vars>>

Paginate == Returns("paginate_results", paginate_results(pg.results, pg.page, pg.limit))
CardsService ==
    Returns("get_cards_service",
            get_cards_service(pg.results, pg.total_count, pg.page, pg.limit))
SetsService ==
    Returns("get_sets_service",
            get_sets_service(pg.results, pg.total_count, pg.page, pg.limit))

\* A caller walks the pages of the list: paginate_results for page 1, 2, ...
\* up to MaxBeyond pages after the last; slices collects the data returned.
NextPage ==
    /\ pg.limit > 0
    /\ \/ pg.op = "none"
       \/ /\ pg.op = "paginate_results"
          /\ pg.slices # <<>>
          /\ Len(pg.slices) < pg.out.pagination.total_pages + MaxBeyond
    /\ \E out \in {paginate_results(pg.results, Len(pg.slices) + 1, pg.limit)} :
          pg' = [pg EXCEPT !.op = "paginate_results",
                           !.page = Len(pg.slices) + 1,
                           !.out = out,
                           !.slices = Append(pg.slices, out.data)]
    /\ UNCHANGED <<bridge_vars, gateway_vars, framing_vars>>

NextPaginate ==
    \/ Paginate
    \/ CardsService
    \/ SetsService
    \/ NextPage

SpecPaginate == PaginateInit /\ [][NextPaginate]_vars

\* The number of items the pagination block of the call counts: the length of
\* the list for paginate_results, the upstream totalCount for the services.
Counted == IF pg.op = "paginate_results" THEN Len(pg.results) ELSE pg.total_count

\* C8: the pagination block has total_items = n, items_per_page = limit,
\* current_page = page, total_pages = ceil(n / limit) when limit > 0 (the least
\* t with t * limit >= n) and total_pages = 1 when limit = 0.
C8_PaginationBlock ==
    pg.op # "none" =>
        /\ pg.out.pagination.total_items = Counted
        /\ pg.out.pagination.items_per_page = pg.limit
        /\ pg.out.pagination.current_page = pg.page
        /\ pg.limit > 0 =>
              /\ pg.out.pagination.total_pages * pg.limit >= Counted
              /\ (pg.out.pagination.total_pages - 1) * pg.limit < Counted
        /\ pg.limit = 0 => pg.out.pagination.total_pages = 1

\* Five items in pages of two: three pages.
C8_Witness ==
    /\ pg.op = "paginate_results"
    /\ Len(pg.results) = 5
    /\ pg.limit = 2
    /\ pg.out.pagination.total_pages = 3

-----------------------------------------------------------------------------
(* Framing on its own: write_message and read_message over one byte stream *)

MaxFrames == 3

\* Response envelopes of the shapes main writes.
Envelopes ==
    {DictSet(NewResponse(PyInt(1)), "result", InitializeResult),
     DictSet(NewResponse(PyInt(2)), "result", None),
     DictSet(NewResponse(PyStr("a\"\\b")), "result",
             PyDict(<< <<"status", PyStr("success")>>,
                       <<"results", PyList(Catalog(1))>>,
                       <<"pagination", PyPagination(PaginationBlock(1, 1, 20))>> >>)),
     ToolResponse(NewResponse(PyInt(0)), ToolStatus("server_error", "line\r\n\tbreak")),
     ParseErrorResponse,
     ExceptionResponse(PyInt(-7), "'card_id'")}

FrameWrite ==
    /\ Len(written) < MaxFrames
    /\ \E e \in Envelopes :
          /\ pipe' = write_message(pipe, e)
          /\ written' = Append(written, e)
    /\ UNCHANGED <<readback, bridge_vars, gateway_vars, pg>>

\* read_message on the stream, at a time when a write has been made that no
\* read has taken.
FrameRead ==
    /\ Len(readback) < Len(written)
    /\ \E r \in {read_message(pipe)} :
          /\ pipe' = r.rest
          /\ readback' = Append(readback, [exc |-> r.exc, val |-> r.val])
    /\ UNCHANGED <<written, bridge_vars, gateway_vars, pg>>

NextFraming ==
    \/ FrameWrite
    \/ FrameRead

SpecFraming == Init /\ [][NextFraming]_vars

RECURSIVE FramesFrom(_, _)
\* The bytes of the frames of messages[i], messages[i+1], ...
FramesFrom(messages, i) ==
    IF i > Len(messages) THEN ""
    ELSE "Content-Length: " \o IntToStr(Len(json_dumps(messages[i]))) \o "\r\n"
         \o "Content-Type: application/json\r\n\r\n" \o json_dumps(messages[i])
         \o FramesFrom(messages, i + 1)

\* C9: what read_message returns is the envelope write_message was given, the
\* k-th read returns the k-th envelope written, and the reads consume exactly
\* the bytes the writes of those envelopes produced.
C9_RoundTrip ==
    /\ \A i \in 1..Len(readback) : readback[i] = [exc |-> "", val |-> written[i]]
    /\ pipe = FramesFrom(written, Len(readback) + 1)
    /\ Len(readback) = Len(written) => pipe = ""

\* Three envelopes written back to back, then read back.
C9_Witness ==
    /\ Len(written) = 3
    /\ Len(readback) = 3
    /\ written[1] # written[2]
    /\ written[3] = ParseErrorResponse
    /\ readback[3].val = ParseErrorResponse

-----------------------------------------------------------------------------
(* The gateway on its own: one action for each view of app.py              *)

Q(items) == PyDict(items)

CardsQueries ==
    {Q(<<>>),
     Q(<< <<"name", PyStr("Charizard")>> >>),
     Q(<< <<"name", PyStr("Charizard")>>, <<"page", PyStr("2")>>, <<"limit", PyStr("1")>> >>),
     Q(<< <<"page", PyStr("3")>>, <<"limit", PyStr("1")>> >>),
     Q(<< <<"limit", PyStr("0")>> >>),
     Q(<< <<"page", PyStr("-1")>> >>),
     Q(<< <<"page", PyStr("x")>> >>)}
SetsQueries ==
    {Q(<<>>),
     Q(<< <<"name", PyStr("Base")>> >>),
     Q(<< <<"name", PyStr("Base")>>, <<"page", PyStr("2")>>, <<"limit", PyStr("2")>> >>),
     Q(<< <<"page", PyStr("0")>> >>),
     Q(<< <<"limit", PyStr("")>> >>)}
PriceQueries ==
    {Q(<<>>), Q(<< <<"card_name", PyStr("")>> >>), Q(<< <<"card_name", PyStr("Pikachu")>> >>)}
PathIds == {"base1-4", "xy"}

\* The gateway serves req: before_any_request, then the view, whose SDK call
\* has one of its outcomes.
Serves(req) ==
    /\ \E import_ok \in BOOLEAN :
       \E world \in IF _pokemontcgsdk_initialized \/ import_ok
                    THEN SdkOutcomes ELSE {NoWorld} :
       \E s \in {Serve(Globals, req, import_ok, world)} :
          /\ _pokemontcgsdk_initialized' = s.initialized
          /\ _pokemontcgsdk' = s.sdk
          /\ gw' = [req |-> req, response |-> s.response, world |-> world,
                    before |-> _pokemontcgsdk_initialized,
                    imported |-> s.imported, view |-> s.view]
    /\ UNCHANGED <<bridge_vars, framing_vars, pg>>

GetHome == Serves(GwRequest("/", "", Q(<<>>)))
GetCards == \E args \in CardsQueries : Serves(GwRequest("/cards", "", args))
GetCardById == \E id \in PathIds : Serves(GwRequest("/cards/<id>", id, Q(<<>>)))
GetCardPrice == \E args \in PriceQueries : Serves(GwRequest("/card_price", "", args))
GetSets == \E args \in SetsQueries : Serves(GwRequest("/sets", "", args))
GetSetById == \E id \in PathIds : Serves(GwRequest("/sets/<id>", id, Q(<<>>)))
GetTypes == Serves(GwRequest("/types", "", Q(<<>>)))
GetSupertypes == Serves(GwRequest("/supertypes", "", Q(<<>>)))
GetSubtypes == Serves(GwRequest("/subtypes", "", Q(<<>>)))
GetRarities == Serves(GwRequest("/rarities", "", Q(<<>>)))

NextGateway ==
    \/ GetHome
    \/ GetCards
    \/ GetCardById
    \/ GetCardPrice
    \/ GetSets
    \/ GetSetById
    \/ GetTypes
    \/ GetSupertypes
    \/ GetSubtypes
    \/ GetRarities

SpecGateway == Init /\ [][NextGateway]_vars

\* The status vocabulary of the gateway.
GatewayStatuses == {"success", "not_found", "no_price_data", "server_error"}

\* C10: every response of a JSON endpoint is a JSON envelope whose status is
\* one of success, not_found, no_price_data, server_error.
C10_StatusVocabulary ==
    gw.req.route \in GatewayRoutes =>
        /\ gw.response.content_type = "application/json"
        /\ json_loads(gw.response.body).ok
        /\ json_loads(gw.response.body).val.t = "dict"
        /\ DictGet(json_loads(gw.response.body).val, "status", None)
               \in {PyStr(st) : st \in GatewayStatuses}

-----------------------------------------------------------------------------
(* Further properties of the dispatch loop (specification Spec) *)

LastParams == DictGet(last.pass.req, "params", PyDict(<<>>))
\* The latest pass read a JSON-RPC 2.0 request with an id whose method is one
\* of the nine tools.
ReadToolCall == ReadRequest /\ LastMethod.t = "str" /\ LastMethod.v \in TOOLS
\* The params of that request are a mapping that execute_tool_call accepts: no
\* key tool_name, and the card_id / set_id the by-id tools take from it.
CallableParams ==
    /\ LastParams.t = "dict"
    /\ ~HasKey(LastParams, "tool_name")
    /\ LastMethod = PyStr("get_pokemon_card_by_id") => HasKey(LastParams, "card_id")
    /\ LastMethod = PyStr("get_pokemon_set_by_id") => HasKey(LastParams, "set_id")

\* C11 as stated: a pass makes a GET only for a tool call with an id, never
\* more than one, and every tool call with a recognized name makes exactly one.
C11_ExactlyOneGet ==
    /\ last.pass.gets <= 1
    /\ last.pass.gets = 1 => ReadToolCall
    /\ ReadToolCall => last.pass.gets = 1

\* C11, amended: a pass makes at most one GET, whatever the outcome of the GET,
\* and makes one only for a request with an id and a recognized tool name; it
\* makes exactly one when the params are a mapping execute_tool_call accepts,
\* and none (the call raises before the GET) when they are not.
C11_AtMostOneGet ==
    /\ last.pass.gets <= 1
    /\ last.pass.gets = 1 <=> last.call # NoCall
    /\ last.pass.gets = 1 => ReadToolCall
    /\ ReadToolCall =>
          /\ OneResponseWith(LastId)
          /\ last.pass.gets = (IF CallableParams THEN 1 ELSE 0)

\* A tool call whose GET timed out: one GET, one error response.
C11_Witness ==
    /\ ReadToolCall
    /\ CallableParams
    /\ last.call.net = "Timeout"
    /\ last.pass.gets = 1
    /\ HasKey(Writes[1], "error")

\* The path the GET of the latest tool call should ask for.
PathOfTool ==
    CASE LastMethod = PyStr("get_pokemon_card_price")      -> "/card_price"
      [] LastMethod = PyStr("search_pokemon_cards")        -> "/cards"
      [] LastMethod = PyStr("get_pokemon_sets")            -> "/sets"
      [] LastMethod = PyStr("get_pokemon_card_types")      -> "/types"
      [] LastMethod = PyStr("get_pokemon_card_supertypes") -> "/supertypes"
      [] LastMethod = PyStr("get_pokemon_card_subtypes")   -> "/subtypes"
      [] LastMethod = PyStr("get_pokemon_card_rarities")   -> "/rarities"
      [] LastMethod = PyStr("get_pokemon_card_by_id")
            -> "/cards/" \o PyFormat(DictGet(LastParams, "card_id", None))
      [] LastMethod = PyStr("get_pokemon_set_by_id")
            -> "/sets/" \o PyFormat(DictGet(LastParams, "set_id", None))
ByIdTools == {"get_pokemon_card_by_id", "get_pokemon_set_by_id"}
QueryTools == {"get_pokemon_card_price", "search_pokemon_cards", "get_pokemon_sets"}
\* The key a by-id tool takes out of its params.
IdKey == IF LastMethod = PyStr("get_pokemon_card_by_id") THEN "card_id" ELSE "set_id"
\* The gateway served the GET of the latest tool call.
ServedToolCall == ReadToolCall /\ last.pass.gets = 1 /\ last.call.served

\* C12 as stated: the GET goes to the fixed path of the tool; the by-id tools
\* splice the id into the path and take it out of the query; every other tool
\* sends its whole params as the query.
C12_ParamsUnchanged ==
    ServedToolCall =>
        last.call.req =
            UrlMap(PathOfTool,
                   QueryArgs(IF LastMethod.v \in ByIdTools
                             THEN DictWithout(LastParams, IdKey)
                             ELSE LastParams))

\* C12, amended: the GET goes to the fixed path of the tool; card price, card
\* search and sets send their whole params as the query; the by-id tools
\* splice the id into the path and send no query at all, and types,
\* supertypes, subtypes and rarities send no query whatever their params.
C12_PathsAndQueries ==
    ServedToolCall =>
        last.call.req =
            UrlMap(PathOfTool,
                   IF LastMethod.v \in QueryTools THEN QueryArgs(LastParams)
                   ELSE PyDict(<<>>))

\* A card asked for by id, with the id in the path and an empty query.
C12_Witness ==
    /\ ServedToolCall
    /\ LastMethod = PyStr("get_pokemon_card_by_id")
    /\ last.call.req = GwRequest("/cards/<id>", "base1-4", PyDict(<<>>))

\* C13: when the dispatch of a request with an id raises an exception no
\* branch handles, an error response with the id of the request is written and
\* the loop ends.
C13_ExceptionTerminates ==
    (ReadRequest /\ last.pass.branch = "tool_exception") =>
        /\ OneResponseWith(LastId)
        /\ HasKey(Writes[1], "error")
        /\ loop = "terminated"

\* C14: a JSON-RPC 2.0 message with method exit, with or without an id, gets
\* no frame and ends the loop; after that no byte of the input is read, no
\* pass is made and nothing is written, whatever the client still sends.
C14_ExitSilent ==
    (ReadObject /\ DictGet(last.pass.req, "jsonrpc", None) = V2
        /\ LastMethod = PyStr("exit")) =>
        /\ Writes = <<>>
        /\ stdout = ""
        /\ last.pass.gets = 0
        /\ loop = "terminated"
C14_NothingAfterExit ==
    loop = "terminated" =>
        /\ loop' = "terminated"
        /\ request_id' = request_id
        /\ Len(stdin') >= Len(stdin)
        /\ Slice(stdin', 1, Len(stdin)) = stdin
        /\ Len(stdout') <= Len(stdout)
C14_Exit == [](C14_ExitSilent) /\ [][C14_NothingAfterExit]_vars

\* An exit that carries an id ended the loop without a frame.
C14_Witness ==
    /\ ReadObject
    /\ LastMethod = PyStr("exit")
    /\ LastId = PyInt(1)
    /\ last.pass.branch = "exit"
    /\ loop = "terminated"
    /\ stdout = ""

\* The bytes end inside a header block: no byte that is not UTF-8, and no
\* blank line that would end the block.
EndsInHeaders(bytes) ==
    /\ bytes # ""
    /\ DecodesUtf8(bytes)
    /\ Strip(ReadLine(bytes)) # ""
    /\ ~\E i \in 1..Len(bytes) :
          /\ CharAt(bytes, i) = "\n"
          /\ Strip(ReadLine(Drop(bytes, i))) = ""
          /\ i < Len(bytes)

\* C15: when the input ends inside a header block, read_message returns None
\* and the loop ends without a frame for the truncated message.
C15_TruncatedHeaders ==
    (eof /\ last.pass.branch # "none" /\ EndsInHeaders(last.input)) =>
        /\ Writes = <<>>
        /\ last.pass.branch = "end"
        /\ loop = "terminated"

\* C16: a tool call whose GET is answered 2xx with a content type that is not
\* JSON gets an error, not a result, whatever the body.
C16_NonJsonContentType ==
    (/\ ReadToolCall
     /\ last.pass.gets = 1
     /\ last.call.http.kind = "response"
     /\ last.call.http.status_code \in 200..299
     /\ last.call.http.content_type # "application/json") =>
        /\ OneResponseWith(LastId)
        /\ HasKey(Writes[1], "error")
        /\ ~HasKey(Writes[1], "result")

\* read_message on bytes fails in the header block: a header line without a
\* colon, or a Content-Length that int() does not take.
HeaderFailure(bytes) ==
    /\ read_message(bytes).exc = "ValueError"
    /\ \/ Slice(read_message(bytes).msg, 1, 17) = "not enough values"
       \/ Slice(read_message(bytes).msg, 1, 15) = "invalid literal"

\* C17: a failure in the header block is answered by a parse error (code
\* -32700) with id null, never the id of an earlier message, and the loop goes
\* on.
C17_HeaderParseError ==
    (last.pass.branch # "none" /\ HeaderFailure(last.input)) =>
        /\ OneResponseWith(None)
        /\ ErrorCode(Writes[1]) = PyInt(-32700)
        /\ loop = "running"

-----------------------------------------------------------------------------
(* Further properties of the gateway (specification SpecGateway) *)

\* A request has been served (gw holds it).
ServedOne == gw # NoGw
InitFailureBody ==
    ErrorBody("server_error",
              "Critical server error: SDK initialization failed. "
              \o "Please check server logs. Error: No module named 'pokemontcgsdk'")

\* C18: the flag is set only with the module held; a view runs only with the
\* flag set, and a request that finds the import failing is answered 500
\* server_error; a failed attempt leaves the flag unset and the module None,
\* and the next request imports again; once the flag is set it stays set and
\* no request imports again.
C18_FlagAndModule ==
    /\ _pokemontcgsdk_initialized <=> _pokemontcgsdk = "module"
    /\ ServedOne =>
          /\ gw.view <=> _pokemontcgsdk_initialized
          /\ gw.imported <=> ~gw.before
          /\ ~gw.view =>
                /\ gw.imported
                /\ gw.response = Jsonify(InitFailureBody, 500, "INTERNAL SERVER ERROR")
                /\ _pokemontcgsdk = "None"
C18_RetryAndOnce ==
    /\ (~_pokemontcgsdk_initialized /\ gw' # gw) => gw'.imported
    /\ _pokemontcgsdk_initialized =>
          /\ _pokemontcgsdk_initialized'
          /\ _pokemontcgsdk' = _pokemontcgsdk
          /\ ~gw'.imported \/ gw' = gw
C18_Initialization == [](C18_FlagAndModule) /\ [][C18_RetryAndOnce]_vars

\* The request that did the import, answered by its view.
C18_Witness ==
    /\ ServedOne
    /\ gw.req.route = "/cards"
    /\ ~gw.before
    /\ gw.imported
    /\ gw.view
    /\ _pokemontcgsdk_initialized
    /\ gw.response.status_code = 200

\* The status and the page and limit of the request served.
GwStatus == DictGet(json_loads(gw.response.body).val, "status", None)
GwPage == ParseInt(DictGet(gw.req.args, "page", PyStr("1")).v)
GwLimit == ParseInt(DictGet(gw.req.args, "limit", PyStr("20")).v)

\* C19: GET /cards and GET /sets answer not_found (404) only when the SDK
\* query matched nothing; when it matched at least one item the answer is
\* success for every positive page and limit, a page beyond the last included.
C19_NotFoundOnlyWhenEmpty ==
    (/\ ServedOne
     /\ gw.req.route \in {"/cards", "/sets"}
     /\ gw.view
     /\ gw.world.kind = "return"
     /\ GwPage.ok /\ GwPage.val > 0
     /\ GwLimit.ok /\ GwLimit.val > 0) =>
        /\ GwStatus = PyStr("not_found") =>
              gw.response.status_code = 404 /\ gw.world.items = <<>>
        /\ gw.world.items # <<>> =>
              GwStatus = PyStr("success") /\ gw.response.status_code = 200

-----------------------------------------------------------------------------
(* Further properties of pagination (specification SpecPaginate) *)

RECURSIVE Concat(_, _, _)
\* slices[i] \o slices[i+1] \o ... \o slices[j]
Concat(slices, i, j) ==
    IF i > j THEN <<>> ELSE slices[i] \o Concat(slices, i + 1, j)

\* C20: for limit > 0 the slices of pages 1..total_pages partition the list:
\* no slice has more than limit items, every page before the last has exactly
\* limit, the slices in page order make up the list, and the pages after
\* total_pages are empty.
C20_SlicesPartition ==
    pg.slices # <<>> =>
        /\ \A k \in 1..Len(pg.slices) :
              /\ Len(pg.slices[k]) <= pg.limit
              /\ k < pg.out.pagination.total_pages => Len(pg.slices[k]) = pg.limit
              /\ k > pg.out.pagination.total_pages => pg.slices[k] = <<>>
        /\ Len(pg.slices) >= pg.out.pagination.total_pages =>
              Concat(pg.slices, 1, pg.out.pagination.total_pages) = pg.results

\* Five items in pages of two, walked to the page after the last.
C20_Witness ==
    /\ Len(pg.results) = 5
    /\ pg.limit = 2
    /\ Len(pg.slices) = 4
    /\ pg.slices[3] = <<Item(5)>>
    /\ pg.slices[4] = <<>>

=============================================================================
